---- MODULE Spec2Model ----
(***************************************************************************)
(* bevy_text_furigana: ruby (furigana) annotations for UI text and Text2d. *)
(*                                                                         *)
(* The model is the ECS world the plugin works on (entities, the Ruby      *)
(* component, the RubyText/LinkedRubyText relationships, the annotation    *)
(* nodes' text, font, colour and placement) and the per-frame schedule of  *)
(* FuriganaPlugin::build.                                                  *)
(*                                                                         *)
(* Number conventions (f32 values are modelled by exact integers, on       *)
(* inputs for which every division of the code is exact):                  *)
(*   - lengths and coordinates are integers (pixels);                      *)
(*   - Ruby::font_size_scale is stored in halves (1 is 0.5, 2 is 1.0);     *)
(*   - z coordinates of Transform are stored in hundredths (1 is 0.01);    *)
(*   - rotations are quarter turns (0 or 1), so cos/sin are 0, 1 or -1.    *)
(***************************************************************************)
EXTENDS Integers, FiniteSets, Sequences, TLC

\* ------------------------------------------------------------------ bounds
\* number of annotation nodes that can be spawned in one behaviour
MaxSpawn == 3

\* ------------------------------------------------------------------ scene
\* The entities the user owns.  root is a plain UI Node; block is a UI Text
\* child of root with the TextSpan child span; lone is a UI Text without a
\* parent; block2d is a Text2d with the TextSpan child span2d; stray is a
\* TextSpan without a parent.
Scene == [root |-> 1, block |-> 2, span |-> 3, lone |-> 4, block2d |-> 5, span2d |-> 6,
          stray |-> 7]

SceneIds == {Scene.root, Scene.block, Scene.span, Scene.lone, Scene.block2d, Scene.span2d,
             Scene.stray}

NodeIds == (Cardinality(SceneIds) + 1)..(Cardinality(SceneIds) + MaxSpawn)

Ids == SceneIds \cup NodeIds

\* Entity::PLACEHOLDER / "no entity"
NoEntity == 0

SceneKind == [e \in SceneIds |->
    CASE e = Scene.root -> "node"
      [] e = Scene.block -> "text"
      [] e = Scene.span -> "span"
      [] e = Scene.lone -> "text"
      [] e = Scene.block2d -> "text2d"
      [] OTHER -> "span"]

SceneParent == [e \in SceneIds |->
    CASE e = Scene.block -> Scene.root
      [] e = Scene.span -> Scene.block
      [] e = Scene.span2d -> Scene.block2d
      [] OTHER -> NoEntity]

\* ------------------------------------------------------------------ values
RubyPosition == {"Over", "Under"}

RubyAlign == {"Start", "Center", "End"}

NoRuby == [present |-> FALSE]

NoColor == "none"

\* Ruby::new(rt): position Over, font_size_scale 0.5 (one half unit),
\* align Center, no colour override
RubyNew(rt) ==
    [present |-> TRUE, rt |-> rt, position |-> "Over", align |-> "Center",
     font_size_scale |-> 1, color |-> NoColor]

DefaultFont == [font |-> "default", font_size |-> 20]

DefaultColor == "white"

Auto == [auto |-> TRUE, px |-> 0]

Px(v) == [auto |-> FALSE, px |-> v]

\* glam::Affine2: the two columns of matrix2 and the translation
Affine2(xa, ya, t) == [x_axis |-> xa, y_axis |-> ya, translation |-> t]

\* UiGlobalTransform::default(), Affine2::IDENTITY
AffineIdentity == Affine2(<<1, 0>>, <<0, 1>>, <<0, 0>>)

\* UiTransform::default(): scale ONE, rotation 0 (translation is not used here)
UiTransformDefault == [scale |-> <<1, 1>>, rotation |-> 0]

\* ComputedNode::default(): zero size, zero border
ComputedDefault == [size |-> <<0, 0>>, content_size |-> <<0, 0>>, border |-> <<0, 0>>]

\* Transform::IDENTITY (translation x, y, z; rotation about z)
TransformIdentity == [translation |-> <<0, 0, 0>>, rotation |-> 0]

\* GlobalTransform::IDENTITY
GlobalTransformIdentity == [scale |-> <<1, 1>>, rotation |-> 0, translation |-> <<0, 0, 0>>]

\* Visibility::default(), a required component of Node that create_ruby_text leaves
\* at its default
VisibilityDefault == "Inherited"

NoRect == [present |-> FALSE]

Rect(x0, y0, x1, y1) == [present |-> TRUE, min |-> <<x0, y0>>, max |-> <<x1, y1>>]

VARIABLES
    alive,              \* entities that exist
    kind,               \* archetype: node, text, span, text2d, rt, rt2d, none
    childOf,            \* ChildOf(parent), NoEntity when absent
    ruby,               \* the Ruby component, NoRuby when absent
    rubyText,           \* RubyText(spec entity) on a UI annotation node
    linkedRubyText,     \* LinkedRubyText(node) on a spec entity
    rubyText2d,         \* RubyText2d(spec entity) on a 2D annotation node
    linkedRubyText2d,   \* LinkedRubyText2d(node) on a spec entity
    nextId,             \* next entity id World::spawn hands out
    text,               \* Text / Text2d string of an annotation node
    textFont,           \* TextFont
    textColor,          \* TextColor
    rubyChanged,        \* per Sync system: entities whose Ruby changed since its last run
    fontChanged,        \* per Sync system: entities whose TextFont changed since its last run
    node,               \* Node.top / Node.left
    visibility,         \* Visibility
    uiTransform,        \* UiTransform (scale, rotation)
    uiGlobalTransform,  \* UiGlobalTransform
    computedNode,       \* ComputedNode (written by the UI layout pass)
    sectionRect,        \* TextLayoutInfo.section_rects entry of a run, NoRect when absent
    layoutSize,         \* TextLayoutInfo.size of a text block
    layoutScale,        \* TextLayoutInfo.scale_factor of a text block
    targetScale,        \* ComputedUiRenderTargetInfo.scale_factor
    transform,          \* Transform (2D)
    globalTransform,    \* GlobalTransform (2D)
    marked,             \* <<entity, component>> marked changed by the last Placement pass
    settings,           \* FuriganaSettings.update_ui_global_transform
    addedInFrame,       \* spec entities whose Ruby was added since the frame began
    removedInFrame,     \* entities whose Ruby was removed since the frame began
    rubyAge,            \* frames ended since the Ruby of an entity was last written (0, 1, 2 = more)
    probe,              \* arguments and results of the anchor computation applied on its own
    pc                  \* position in the frame

lifeVars == <<alive, kind, childOf, ruby, rubyText, linkedRubyText, rubyText2d,
              linkedRubyText2d, nextId>>

contentVars == <<text, textFont, textColor>>

changeVars == <<rubyChanged, fontChanged>>

uiOutVars == <<node, visibility, uiTransform, uiGlobalTransform>>

layoutVars == <<computedNode, sectionRect, layoutSize, layoutScale, targetScale>>

world2dVars == <<transform, globalTransform>>

frameVars == <<addedInFrame, removedInFrame, rubyAge, probe>>

ctlVars == <<marked, settings, frameVars, pc>>

vars == <<lifeVars, contentVars, changeVars, uiOutVars, layoutVars, world2dVars, ctlVars>>

\* ------------------------------------------------------------------ queries
HasRuby(e) == e \in alive /\ ruby[e].present

\* With<Text>: UI text blocks and UI annotation nodes carry Text (and Node, ZIndex, TextFont)
HasText(e) == e \in alive /\ kind[e] \in {"text", "rt"}

\* With<Text2d>: Text2d blocks and 2D annotation nodes (Transform, TextFont, TextColor required)
HasText2d(e) == e \in alive /\ kind[e] \in {"text2d", "rt2d"}

\* With<TextSpan> (TextFont and TextColor are required components of TextSpan)
HasTextSpan(e) == e \in alive /\ kind[e] = "span"

\* Query<&ChildOf>::get
HasChildOf(e) == e \in alive /\ childOf[e] # NoEntity

\* ------------------------------------------------------------------ lifecycle
\* ruby_text_font: font_size * font_size_scale (in halves), the rest of the font cloned
ruby_text_font(text_font, font_size_scale) ==
    [text_font EXCEPT !.font_size = (text_font.font_size * font_size_scale) \div 2]

add_ruby_needs_parent(e) == HasText(e) /\ HasChildOf(e)

\* add_ruby: the query (&Ruby, &TextFont, Option<&ChildOf>, &ZIndex), With<Text>
\* matches the entity the Ruby was added to
add_ruby(e) == HasText(e)

add_ruby_text_span_any_parent(e) == HasTextSpan(e) /\ HasChildOf(e)

\* add_ruby_text_span: a TextSpan with a parent that is a UI text node (Node, Text);
\* its TextFont is a required component of TextSpan
add_ruby_text_span(e) ==
    /\ HasTextSpan(e)
    /\ HasChildOf(e)
    /\ HasText(childOf[e])

\* add_ruby_2d: the query (&Ruby, &TextFont, &Transform, &TextColor), With<Text2d>
add_ruby_2d(e) == HasText2d(e)

\* add_ruby_text_span_2d: a TextSpan with a parent that is a Text2d
add_ruby_text_span_2d(e) ==
    /\ HasTextSpan(e)
    /\ HasChildOf(e)
    /\ HasText2d(childOf[e])

render_parent_is_block(e) == IF kind[e] = "span" THEN childOf[e] ELSE e

\* the parent create_ruby_text is called with: the block's parent, for a span the
\* grandparent (None is NoEntity)
UiRenderParent(e) == IF kind[e] = "span" THEN childOf[childOf[e]] ELSE childOf[e]

\* the Transform create_ruby_text_2d is called with: the block's
Block2dOf(e) == IF kind[e] = "span" THEN childOf[e] ELSE e

relationship_keep_old(old, rel, n, e) == [rel EXCEPT ![n] = e]

\* Relationship::on_insert of a one-to-one relationship: the source the target had
\* loses its relationship component, then the new source is recorded
relationship_insert(old, rel, n, e) ==
    [x \in DOMAIN rel |-> IF x = n THEN e
                          ELSE IF x = old /\ old # NoEntity THEN NoEntity
                          ELSE rel[x]]

\* create_ruby_text: spawn (RubyText, Text, Node{Absolute}, ZIndex, TextFont), add_child
create_ruby_text(n, e, r, parent, text_font) ==
    /\ alive' = alive \cup {n}
    /\ nextId' = n + 1
    /\ kind' = [kind EXCEPT ![n] = "rt"]
    /\ childOf' = [childOf EXCEPT ![n] = parent]
    /\ rubyText' = relationship_insert(linkedRubyText[e], rubyText, n, e)
    /\ linkedRubyText' = [linkedRubyText EXCEPT ![e] = n]
    /\ text' = [text EXCEPT ![n] = r.rt]
    /\ textFont' = [textFont EXCEPT ![n] = ruby_text_font(text_font, r.font_size_scale)]
    /\ UNCHANGED <<rubyText2d, linkedRubyText2d, textColor, transform>>

\* create_ruby_text_2d: spawn (RubyText2d, Text2d, TextFont, TextColor, Transform)
create_ruby_text_2d(n, e, r, text_font, block_transform, text_color) ==
    /\ alive' = alive \cup {n}
    /\ nextId' = n + 1
    /\ kind' = [kind EXCEPT ![n] = "rt2d"]
    /\ rubyText2d' = relationship_insert(linkedRubyText2d[e], rubyText2d, n, e)
    /\ linkedRubyText2d' = [linkedRubyText2d EXCEPT ![e] = n]
    /\ text' = [text EXCEPT ![n] = r.rt]
    /\ textFont' = [textFont EXCEPT ![n] = ruby_text_font(text_font, r.font_size_scale)]
    /\ textColor' = [textColor EXCEPT ![n] =
                        IF r.color # NoColor THEN r.color ELSE text_color]
    /\ transform' = [transform EXCEPT ![n] =
                        [translation |-> <<0, 0, block_transform.translation[3] + 1>>,
                         rotation |-> 0]]
    /\ UNCHANGED <<childOf, rubyText, linkedRubyText>>

\* what the user may attach a Ruby to
UserEntities == alive \cap SceneIds

\* the four On<Add, Ruby> observers of FuriganaPlugin::build, run once the Ruby r
\* is on e.  The archetypes of this scene are exclusive, so at most one of them spawns.
OnAddRuby(e, r) ==
    IF add_ruby(e) \/ add_ruby_text_span(e)
    THEN /\ nextId \in NodeIds
         /\ create_ruby_text(nextId, e, r, UiRenderParent(e), textFont[e])
         /\ node' = [node EXCEPT ![nextId] = [top |-> Auto, left |-> Auto]]
         /\ visibility' = [visibility EXCEPT ![nextId] = VisibilityDefault]
    ELSE IF add_ruby_2d(e) \/ add_ruby_text_span_2d(e)
    THEN /\ nextId \in NodeIds
         /\ create_ruby_text_2d(nextId, e, r, textFont[e], transform[Block2dOf(e)],
                                textColor[e])
         /\ UNCHANGED <<node, visibility>>
    ELSE UNCHANGED <<alive, nextId, kind, childOf, rubyText, linkedRubyText,
                     rubyText2d, linkedRubyText2d, text, textFont, textColor,
                     transform, node, visibility>>

\* Ruby values the user writes
Rts == {"a", "b"}

\* World::entity_mut(e).insert(Ruby) on an entity without a Ruby: On<Add, Ruby> fires
AddRuby(e, r) ==
    /\ pc = "update"
    /\ e \in UserEntities
    /\ ~ruby[e].present
    /\ ruby' = [ruby EXCEPT ![e] = r]
    /\ OnAddRuby(e, r)
    /\ rubyChanged' = [s \in DOMAIN rubyChanged |-> rubyChanged[s] \cup {e}]
    /\ addedInFrame' = addedInFrame \cup {e}
    /\ rubyAge' = [rubyAge EXCEPT ![e] = 0]
    /\ UNCHANGED <<removedInFrame, probe, fontChanged, uiTransform, uiGlobalTransform, layoutVars,
                   globalTransform, marked, settings, pc>>

\* insert(Ruby) on an entity that has one, or a mutation through &mut Ruby: the value
\* is replaced and flagged changed; On<Add> does not fire
SetRuby(e, r) ==
    /\ pc = "update"
    /\ e \in UserEntities
    /\ ruby[e].present
    /\ r # ruby[e]
    /\ ruby' = [ruby EXCEPT ![e] = r]
    /\ rubyAge' = [rubyAge EXCEPT ![e] = 0]
    /\ rubyChanged' = [s \in DOMAIN rubyChanged |-> rubyChanged[s] \cup {e}]
    /\ UNCHANGED <<alive, kind, childOf, rubyText, linkedRubyText, rubyText2d,
                   linkedRubyText2d, nextId, contentVars, fontChanged, uiOutVars,
                   layoutVars, world2dVars, marked, settings, addedInFrame,
                   removedInFrame, probe, pc>>

\* remove::<Ruby>() on a live entity: the plugin registers no observer for it
RemoveRuby(e) ==
    /\ pc = "update"
    /\ e \in UserEntities
    /\ ruby[e].present
    /\ ruby' = [ruby EXCEPT ![e] = NoRuby]
    /\ rubyChanged' = [s \in DOMAIN rubyChanged |-> rubyChanged[s] \ {e}]
    /\ addedInFrame' = addedInFrame \ {e}
    /\ removedInFrame' = removedInFrame \cup {e}
    /\ UNCHANGED <<rubyAge, probe>>
    /\ UNCHANGED <<alive, kind, childOf, rubyText, linkedRubyText, rubyText2d,
                   linkedRubyText2d, nextId, contentVars, fontChanged, uiOutVars,
                   layoutVars, world2dVars, marked, settings, pc>>

\* despawn closes over Children and over the linked_spawn relationship targets
RECURSIVE DespawnSet(_)
DespawnSet(S) ==
    LET more == S \cup {c \in alive : childOf[c] \in S}
                  \cup {linkedRubyText[x] : x \in S} \cup {linkedRubyText2d[x] : x \in S}
        next == more \cap alive
    IN  IF next = S THEN S ELSE DespawnSet(next)

DespawnOnly(e) == {e}

\* the entities World::despawn(e) removes
Despawned(e) == DespawnSet({e})

\* a component column after the despawn: the rows of the despawned entities are gone
Cleared(col, D, default) == [x \in DOMAIN col |-> IF x \in D THEN default ELSE col[x]]

\* Relationship::on_replace of a despawned source: the target loses its
\* relationship-target component
Unlinked(linked, D) ==
    [x \in DOMAIN linked |-> IF x \in D \/ linked[x] \in D THEN NoEntity ELSE linked[x]]

Despawn(e) ==
    /\ pc = "update"
    /\ e \in alive
    /\ LET D == Despawned(e) IN
        /\ alive' = alive \ D
        /\ kind' = Cleared(kind, D, "none")
        /\ childOf' = Cleared(childOf, D, NoEntity)
        /\ ruby' = Cleared(ruby, D, NoRuby)
        /\ rubyText' = Cleared(rubyText, D, NoEntity)
        /\ rubyText2d' = Cleared(rubyText2d, D, NoEntity)
        /\ linkedRubyText' = Unlinked(linkedRubyText, D)
        /\ linkedRubyText2d' = Unlinked(linkedRubyText2d, D)
        /\ text' = Cleared(text, D, "")
        /\ textFont' = Cleared(textFont, D, DefaultFont)
        /\ textColor' = Cleared(textColor, D, DefaultColor)
        /\ node' = Cleared(node, D, [top |-> Auto, left |-> Auto])
        /\ visibility' = Cleared(visibility, D, VisibilityDefault)
        /\ uiTransform' = Cleared(uiTransform, D, UiTransformDefault)
        /\ uiGlobalTransform' = Cleared(uiGlobalTransform, D, AffineIdentity)
        /\ computedNode' = Cleared(computedNode, D, ComputedDefault)
        /\ sectionRect' = Cleared(sectionRect, D, NoRect)
        /\ layoutSize' = Cleared(layoutSize, D, <<0, 0>>)
        /\ layoutScale' = Cleared(layoutScale, D, 1)
        /\ transform' = Cleared(transform, D, TransformIdentity)
        /\ globalTransform' = Cleared(globalTransform, D, GlobalTransformIdentity)
        /\ rubyChanged' = [s \in DOMAIN rubyChanged |-> rubyChanged[s] \ D]
        /\ fontChanged' = [s \in DOMAIN fontChanged |-> fontChanged[s] \ D]
        /\ marked' = {m \in marked : m[1] \notin D}
        /\ addedInFrame' = addedInFrame \ D
        /\ removedInFrame' = removedInFrame \ D
        /\ rubyAge' = Cleared(rubyAge, D, 2)
    /\ UNCHANGED <<nextId, targetScale, settings, probe, pc>>

\* ------------------------------------------------------------------ geometry
Half(v) == <<v[1] \div 2, v[2] \div 2>>

Add2(a, b) == <<a[1] + b[1], a[2] + b[2]>>

Sub2(a, b) == <<a[1] - b[1], a[2] - b[2]>>

Abs(x) == IF x < 0 THEN -x ELSE x

Sign(x) == IF x < 0 THEN -1 ELSE 1

\* cos and sin of q quarter turns
Cos(q) == CASE q % 4 = 0 -> 1 [] q % 4 = 2 -> -1 [] OTHER -> 0

Sin(q) == CASE q % 4 = 1 -> 1 [] q % 4 = 3 -> -1 [] OTHER -> 0

\* Affine2::transform_point2: matrix2 * p + translation
transform_point2(A, p) ==
    <<A.x_axis[1] * p[1] + A.y_axis[1] * p[2] + A.translation[1],
      A.x_axis[2] * p[1] + A.y_axis[2] * p[2] + A.translation[2]>>

\* Affine2::from_scale_angle_translation: rotation columns scaled by scale.x, scale.y
from_scale_angle_translation(scale, angle, t) ==
    Affine2(<<Cos(angle) * scale[1], Sin(angle) * scale[1]>>,
            <<-Sin(angle) * scale[2], Cos(angle) * scale[2]>>, t)

\* length of a vector of an axis-aligned (quarter-turn) matrix
AxisLength(v) == Abs(v[1]) + Abs(v[2])

\* atan2(s, c) in quarter turns, for an axis-aligned direction
Atan2(sn, cs) == IF sn = 0 THEN (IF cs < 0 THEN 2 ELSE 0) ELSE (IF sn > 0 THEN 1 ELSE 3)

\* Affine2::to_scale_angle_translation: scale = (|x_axis| * sign(det), |y_axis|),
\* angle = atan2(-y_axis.x, y_axis.y)
to_scale_angle_translation(A) ==
    LET det == A.x_axis[1] * A.y_axis[2] - A.y_axis[1] * A.x_axis[2]
    IN  [scale |-> <<AxisLength(A.x_axis) * Sign(det), AxisLength(A.y_axis)>>,
         angle |-> Atan2(-A.y_axis[1], A.y_axis[2]),
         translation |-> A.translation]

\* Affine2::inverse (exact here: the determinants of the parents' matrices are 1 or -1)
AffineInverse(A) ==
    LET det == A.x_axis[1] * A.y_axis[2] - A.y_axis[1] * A.x_axis[2]
        d(x) == (x * Sign(det)) \div Abs(det)
        ix == <<d(A.y_axis[2]), d(-A.x_axis[2])>>
        iy == <<d(-A.y_axis[1]), d(A.x_axis[1])>>
        m == Affine2(ix, iy, <<0, 0>>)
        t == transform_point2(m, A.translation)
    IN  Affine2(ix, iy, <<-t[1], -t[2]>>)

\* Affine2 * Affine2
AffineMul(A, B) ==
    LET lin == Affine2(A.x_axis, A.y_axis, <<0, 0>>)
    IN  Affine2(transform_point2(lin, B.x_axis), transform_point2(lin, B.y_axis),
                transform_point2(A, B.translation))

\* GlobalTransform::transform_point for a transform that scales x and y, rotates
\* about z and translates: z passes through and is translated
transform_point(G, p) ==
    LET xy == transform_point2(
                  from_scale_angle_translation(G.scale, G.rotation,
                                               <<G.translation[1], G.translation[2]>>),
                  <<p[1], p[2]>>)
    IN  <<xy[1], xy[2], p[3] + G.translation[3]>>

\* ------------------------------------------------------------------ Sync (UI)
\* the pairs update_ruby_text visits: a node with RubyText (and no Ruby of its own)
\* whose target has Ruby and TextFont
SyncPairUi(n) == n \in alive /\ rubyText[n] # NoEntity /\ ~ruby[n].present
                 /\ HasRuby(rubyText[n])

update_ruby_text ==
    /\ pc = "update"
    /\ text' = [n \in Ids |->
          IF SyncPairUi(n) /\ rubyText[n] \in rubyChanged.ui
                /\ text[n] # ruby[rubyText[n]].rt
          THEN ruby[rubyText[n]].rt ELSE text[n]]
    /\ textFont' = [n \in Ids |->
          IF SyncPairUi(n) /\ rubyText[n] \in fontChanged.ui
          THEN ruby_text_font(textFont[rubyText[n]], ruby[rubyText[n]].font_size_scale)
          ELSE textFont[n]]
    /\ rubyChanged' = [rubyChanged EXCEPT !.ui = {}]
    /\ fontChanged' = [fontChanged EXCEPT !.ui = {}]
    /\ pc' = "layout"
    /\ UNCHANGED <<lifeVars, textColor, uiOutVars, layoutVars, world2dVars, marked,
                   settings, frameVars>>

\* ------------------------------------------------------------------ UI layout (external)
\* Entities with Node, ComputedNode, UiGlobalTransform, UiTransform, ComputedUiRenderTargetInfo
IsUiNode(e) == e \in alive /\ kind[e] \in {"node", "text", "rt"}

\* the geometry the flow-layout solver gives the scene's boxes: border-box size,
\* content size, border (left, top) and the box's location in its parent's border box
RootGeom == [size |-> <<200, 120>>, content_size |-> <<192, 112>>, border |-> <<4, 4>>,
             location |-> <<0, 0>>]

BlockGeoms == {[size |-> <<100, 40>>, content_size |-> <<100, 40>>, border |-> <<0, 0>>,
                location |-> <<24, 44>>],
               [size |-> <<120, 60>>, content_size |-> <<100, 40>>, border |-> <<8, 8>>,
                location |-> <<24, 24>>]}

\* the rectangles the shaping pass reports for a run (physical pixels)
RectChoices == {Rect(10, 0, 50, 20), Rect(20, 20, 80, 40)}

\* the measured size of an annotation node's text
RtSize(n) == <<2 * textFont[n].font_size, 2 * textFont[n].font_size>>

ValPx(v) == IF v.auto THEN 0 ELSE v.px

\* ComputedNode the solver writes for x under block geometry g
LayoutComputed(x, g) ==
    CASE kind[x] = "node" -> [size |-> RootGeom.size, content_size |-> RootGeom.content_size,
                              border |-> RootGeom.border]
      [] kind[x] = "text" -> [size |-> g.size, content_size |-> g.content_size,
                              border |-> g.border]
      [] OTHER -> [size |-> RtSize(x), content_size |-> RtSize(x), border |-> <<0, 0>>]

\* layout location of x in its parent's border box: an absolutely positioned node sits
\* at its left/top insets (times the scale factor) inside the parent's border
LayoutLocation(x, g) ==
    CASE kind[x] = "node" -> RootGeom.location
      [] kind[x] = "text" -> g.location
      [] OTHER ->
          LET inset == <<ValPx(node[x].left) * targetScale, ValPx(node[x].top) * targetScale>>
          IN  IF childOf[x] = NoEntity THEN inset
              ELSE Add2(inset, LayoutComputed(childOf[x], g).border)

\* UiGlobalTransform the solver writes: parent's transform times the node's own
\* UiTransform placed at the centre of its box
RECURSIVE LayoutGlobal(_, _)
LayoutGlobal(x, g) ==
    LET size == LayoutComputed(x, g).size
        psize == IF childOf[x] = NoEntity THEN <<0, 0>>
                 ELSE LayoutComputed(childOf[x], g).size
        center == Sub2(Add2(LayoutLocation(x, g), Half(size)), Half(psize))
        local == from_scale_angle_translation(uiTransform[x].scale,
                                              uiTransform[x].rotation, center)
    IN  IF childOf[x] = NoEntity THEN local
        ELSE AffineMul(LayoutGlobal(childOf[x], g), local)

\* the runs of UI text blocks: the block itself and its spans
IsUiRun(e) == (e \in alive /\ kind[e] = "text")
              \/ (HasTextSpan(e) /\ HasChildOf(e) /\ kind[childOf[e]] = "text")

\* UiSystems::Layout: the flow-layout solver and the text shaping of UI text
UiLayout(g, rect) ==
    /\ pc = "layout"
    \* the style of the block does not change: the solver gives it the same box again
    /\ \A x \in Ids : (x \in alive /\ kind[x] = "text" /\ computedNode[x] # ComputedDefault)
                          => computedNode[x] = LayoutComputed(x, g)
    /\ computedNode' = [x \in Ids |-> IF IsUiNode(x) THEN LayoutComputed(x, g)
                                      ELSE computedNode[x]]
    /\ uiGlobalTransform' = [x \in Ids |-> IF IsUiNode(x) THEN LayoutGlobal(x, g)
                                           ELSE uiGlobalTransform[x]]
    /\ sectionRect' = [x \in Ids |-> IF IsUiRun(x) THEN rect ELSE sectionRect[x]]
    /\ layoutSize' = [x \in Ids |-> IF HasText(x) THEN LayoutComputed(x, g).content_size
                                    ELSE layoutSize[x]]
    /\ pc' = "place"
    /\ UNCHANGED <<lifeVars, contentVars, changeVars, node, visibility, uiTransform, layoutScale,
                   targetScale, world2dVars, marked, settings, frameVars>>

\* ------------------------------------------------------------------ Placement (UI)
ruby_pos_local_centered(section_rect, align, position, w) ==
    << (section_rect.min[1] + section_rect.max[1]) \div 2,
       IF position = "Over" THEN section_rect.min[2] ELSE section_rect.max[2] >>

\* the anchor of update_ruby / update_ruby_2d in the block's top-left space, from the
\* run rectangle, the alignment, the position and the annotation's width
ruby_pos_local_topleft(section_rect, align, position, w) ==
    << CASE align = "Start" -> section_rect.min[1] + w \div 2
         [] align = "Center" -> (section_rect.min[1] + section_rect.max[1]) \div 2
         [] OTHER -> section_rect.max[1] - w \div 2,
       IF position = "Over" THEN section_rect.min[2] ELSE section_rect.max[2] >>

\* f32::midpoint
midpoint(a, b) == (a + b) \div 2

\* ruby_pos_local of update_ruby_2d: the same anchor, from the Text2d layout
ruby_pos_local(section_rect, align, position, w) ==
    << CASE align = "Start" -> section_rect.min[1] + w \div 2
         [] align = "Center" -> midpoint(section_rect.min[1], section_rect.max[1])
         [] OTHER -> section_rect.max[1] - w \div 2,
       IF position = "Over" THEN section_rect.min[2] ELSE section_rect.max[2] >>

\* ruby_query of update_ruby: (Entity, Ref<Ruby>, &LinkedRubyText, ..), Without<RubyText>
PairUi(e) == HasRuby(e) /\ linkedRubyText[e] # NoEntity /\ rubyText[e] = NoEntity

\* node_entity: the span's parent, or the text entity itself
NodeEntity(e) == IF kind[e] = "span" THEN childOf[e] ELSE e

\* the `continue`s of update_ruby before the first write: the span has a parent, the
\* block has a TextLayoutInfo holding the run's rectangle, the block and the
\* annotation node are in node_query
PlacedUi(e) ==
    /\ PairUi(e)
    /\ (kind[e] = "span" => HasChildOf(e))
    /\ HasText(NodeEntity(e))
    /\ sectionRect[e].present
    /\ IsUiNode(NodeEntity(e))
    /\ IsUiNode(linkedRubyText[e])

\* (scale_factor, parent_global, parent_computed): the block's parent when it is a UI
\* node, otherwise (1.0, default, default)
ParentInfo(e) ==
    LET b == NodeEntity(e) IN
    IF HasChildOf(b) /\ IsUiNode(childOf[b])
    THEN [scale_factor |-> targetScale, global |-> uiGlobalTransform[childOf[b]],
          computed |-> computedNode[childOf[b]]]
    ELSE [scale_factor |-> 1, global |-> AffineIdentity, computed |-> ComputedDefault]

\* ruby_pos_global: the anchor re-centred by half the block's size, in global space
RubyPosGlobal(e) ==
    LET b == NodeEntity(e)
        rt == linkedRubyText[e]
        topleft == ruby_pos_local_topleft(sectionRect[e], ruby[e].align, ruby[e].position,
                                          computedNode[rt].size[1])
    IN  transform_point2(uiGlobalTransform[b], Sub2(topleft, Half(computedNode[b].size)))

global_from_translation_only(e) ==
    from_scale_angle_translation(<<1, 1>>, 0, RubyPosGlobal(e))

\* the UiGlobalTransform update_ruby builds for the annotation node
RubyGlobalTransform(e) ==
    LET sat == to_scale_angle_translation(uiGlobalTransform[NodeEntity(e)])
    IN  from_scale_angle_translation(sat.scale, sat.angle, RubyPosGlobal(e))

ruby_top_left_border_kept(e) ==
    LET p == ParentInfo(e)
        rt == linkedRubyText[e]
        tl == Sub2(Add2(transform_point2(AffineInverse(p.global), RubyPosGlobal(e)),
                        Half(p.computed.size)),
                   Half(computedNode[rt].size))
    IN  <<tl[1] \div p.scale_factor, tl[2] \div p.scale_factor>>

\* ruby_top_left / scale_factor: (left, top) in logical pixels
RubyTopLeft(e) ==
    LET p == ParentInfo(e)
        rt == linkedRubyText[e]
        tl == Sub2(Sub2(Add2(transform_point2(AffineInverse(p.global), RubyPosGlobal(e)),
                             Half(p.computed.size)),
                        p.computed.border),
                   Half(computedNode[rt].size))
    IN  <<tl[1] \div p.scale_factor, tl[2] \div p.scale_factor>>

placer_ui_aborting(n) ==
    IF (\E e \in Ids : PairUi(e) /\ ~IsUiNode(linkedRubyText[e]))
          \/ ~\E e \in Ids : PlacedUi(e) /\ linkedRubyText[e] = n
    THEN NoEntity
    ELSE CHOOSE e \in Ids : PlacedUi(e) /\ linkedRubyText[e] = n

\* the spec entity update_ruby places node n for (NoEntity when it places none)
PlacerUi(n) ==
    IF \E e \in Ids : PlacedUi(e) /\ linkedRubyText[e] = n
    THEN CHOOSE e \in Ids : PlacedUi(e) /\ linkedRubyText[e] = n
    ELSE NoEntity

flag_ignored(flag) == TRUE

\* `if settings.update_ui_global_transform`
WritesGlobal(flag) == flag

marks_ui_ungated(n, e) == {<<n, "UiTransform">>, <<n, "UiGlobalTransform">>, <<n, "Node">>}

\* the components update_ruby marks changed on node n placed for e: UiTransform is
\* assigned through DerefMut in every pass, UiGlobalTransform through set_if_neq, Node
\* only when top or left differs
MarksUi(n, e) ==
    {<<n, "UiTransform">>}
    \cup (IF WritesGlobal(settings) /\ uiGlobalTransform[n] # RubyGlobalTransform(e)
          THEN {<<n, "UiGlobalTransform">>} ELSE {})
    \cup (IF node[n].top # Px(RubyTopLeft(e)[2]) \/ node[n].left # Px(RubyTopLeft(e)[1])
          THEN {<<n, "Node">>} ELSE {})

update_ruby_run ==
    /\ uiTransform' = [n \in Ids |->
          IF PlacerUi(n) # NoEntity
          THEN [scale |-> uiTransform[NodeEntity(PlacerUi(n))].scale,
                rotation |-> uiTransform[NodeEntity(PlacerUi(n))].rotation]
          ELSE uiTransform[n]]
    /\ uiGlobalTransform' = [n \in Ids |->
          IF PlacerUi(n) # NoEntity /\ WritesGlobal(settings)
          THEN RubyGlobalTransform(PlacerUi(n))
          ELSE uiGlobalTransform[n]]
    /\ node' = [n \in Ids |->
          IF PlacerUi(n) # NoEntity
          THEN [top |-> Px(RubyTopLeft(PlacerUi(n))[2]),
                left |-> Px(RubyTopLeft(PlacerUi(n))[1])]
          ELSE node[n]]
    /\ marked' = UNION {MarksUi(n, PlacerUi(n)) : n \in {m \in Ids : PlacerUi(m) # NoEntity}}
    /\ UNCHANGED <<visibility, lifeVars, contentVars, changeVars, layoutVars, world2dVars, settings,
                   frameVars>>

\* update_ruby in its place in PostUpdate, after UiSystems::Layout
update_ruby ==
    /\ pc = "place"
    /\ update_ruby_run
    /\ pc' = "place2d"

\* ------------------------------------------------------------------ Placement (2D)
\* ruby_query of update_ruby_2d: (Entity, Ref<Ruby>, &LinkedRubyText2d, ..), Without<RubyText2d>
Pair2d(e) == HasRuby(e) /\ linkedRubyText2d[e] # NoEntity /\ rubyText2d[e] = NoEntity

\* any entity with a TextLayoutInfo (a required component of Text and of Text2d)
HasLayoutInfo(e) == HasText(e) \/ HasText2d(e)

placed_2d_no_retry(e) ==
    /\ Pair2d(e)
    /\ rubyAge[e] = 0
    /\ (kind[e] = "span" => HasChildOf(e))
    /\ HasLayoutInfo(NodeEntity(e))
    /\ sectionRect[e].present
    /\ HasLayoutInfo(linkedRubyText2d[e])
    /\ HasText2d(linkedRubyText2d[e])
    /\ HasText2d(NodeEntity(e))

\* the `continue`s of update_ruby_2d
Placed2d(e) ==
    /\ Pair2d(e)
    /\ (kind[e] = "span" => HasChildOf(e))
    /\ HasLayoutInfo(NodeEntity(e))
    /\ sectionRect[e].present
    /\ HasLayoutInfo(linkedRubyText2d[e])
    /\ HasText2d(linkedRubyText2d[e])
    /\ HasText2d(NodeEntity(e))

section_rect_2d_as_reported(rect, scale_factor) == rect

\* Rect::from_corners(section_rect.min / scale_factor, section_rect.max / scale_factor)
section_rect_2d(rect, scale_factor) ==
    [present |-> TRUE,
     min |-> <<rect.min[1] \div scale_factor, rect.min[2] \div scale_factor>>,
     max |-> <<rect.max[1] \div scale_factor, rect.max[2] \div scale_factor>>]

ruby_pos_no_flip(local, z, size) ==
    LET c == Sub2(local, Half(size)) IN <<c[1], c[2], z>>

\* ruby_pos: the anchor extended by z, re-centred by half the layout size, y flipped
ruby_pos(local, z, size) ==
    LET c == Sub2(local, Half(size)) IN <<c[1], -c[2], z>>

\* ruby_pos of the pair of e: from its anchor, the node's own z and the block's
\* layout size
RubyPos2d(e) ==
    LET b == NodeEntity(e)
        rt == linkedRubyText2d[e]
        local == ruby_pos_local(section_rect_2d(sectionRect[e], layoutScale[b]),
                                ruby[e].align, ruby[e].position, layoutSize[rt][1])
    IN  ruby_pos(local, transform[rt].translation[3], layoutSize[b])

\* (translation, rotation) update_ruby_2d computes for the pair of e
RubyTransform2d(e) ==
    [translation |-> transform_point(globalTransform[NodeEntity(e)], RubyPos2d(e)),
     rotation |-> globalTransform[NodeEntity(e)].rotation]

Placer2d(n) ==
    IF \E e \in Ids : Placed2d(e) /\ linkedRubyText2d[e] = n
    THEN CHOOSE e \in Ids : Placed2d(e) /\ linkedRubyText2d[e] = n
    ELSE NoEntity

\* depth guard of the model: the z the pass would write stays within MaxZ
MaxZ == 500

update_ruby_2d_run ==
    /\ \A n \in Ids : Placer2d(n) # NoEntity =>
            RubyTransform2d(Placer2d(n)).translation[3] <= MaxZ
    /\ transform' = [n \in Ids |->
          IF Placer2d(n) # NoEntity /\ transform[n] # RubyTransform2d(Placer2d(n))
          THEN RubyTransform2d(Placer2d(n))
          ELSE transform[n]]
    /\ marked' = {m \in marked : m[2] # "Transform"}
                 \cup {<<n, "Transform">> : n \in {m \in Ids :
                          Placer2d(m) # NoEntity
                          /\ transform[m] # RubyTransform2d(Placer2d(m))}}
    /\ UNCHANGED <<lifeVars, contentVars, changeVars, uiOutVars, layoutVars,
                   globalTransform, settings, frameVars>>

\* update_ruby_2d in its place in PostUpdate, before Text2dUpdateSystems
update_ruby_2d ==
    /\ pc = "place2d"
    /\ update_ruby_2d_run
    /\ pc' = "shape2d"

\* ------------------------------------------------------------------ Text2d shaping (external)
Block2dSize == <<100, 20>>

Is2dRun(e) == (e \in alive /\ kind[e] = "text2d")
              \/ (HasTextSpan(e) /\ HasChildOf(e) /\ kind[childOf[e]] = "text2d")

\* Text2dUpdateSystems: shapes every Text2d and writes its TextLayoutInfo
Text2dUpdate(rect) ==
    /\ pc = "shape2d"
    /\ sectionRect' = [x \in Ids |-> IF Is2dRun(x) THEN rect ELSE sectionRect[x]]
    /\ layoutSize' = [x \in Ids |->
          IF x \in alive /\ kind[x] = "text2d" THEN Block2dSize
          ELSE IF x \in alive /\ kind[x] = "rt2d" THEN RtSize(x)
          ELSE layoutSize[x]]
    /\ layoutScale' = [x \in Ids |-> IF HasText2d(x) THEN targetScale ELSE layoutScale[x]]
    /\ pc' = "sync2d"
    /\ UNCHANGED <<lifeVars, contentVars, changeVars, uiOutVars, computedNode, targetScale,
                   world2dVars, marked, settings, frameVars>>

\* ------------------------------------------------------------------ Sync (2D)
SyncPair2d(n) == n \in alive /\ rubyText2d[n] # NoEntity /\ ~ruby[n].present
                 /\ HasRuby(rubyText2d[n])

update_ruby_text_2d ==
    /\ pc = "sync2d"
    /\ text' = [n \in Ids |->
          IF SyncPair2d(n) /\ rubyText2d[n] \in rubyChanged.world
                /\ text[n] # ruby[rubyText2d[n]].rt
          THEN ruby[rubyText2d[n]].rt ELSE text[n]]
    /\ textFont' = [n \in Ids |->
          IF SyncPair2d(n) /\ rubyText2d[n] \in fontChanged.world
          THEN ruby_text_font(textFont[rubyText2d[n]], ruby[rubyText2d[n]].font_size_scale)
          ELSE textFont[n]]
    /\ textColor' = [n \in Ids |->
          IF SyncPair2d(n)
          THEN (IF ruby[rubyText2d[n]].color # NoColor THEN ruby[rubyText2d[n]].color
                ELSE textColor[rubyText2d[n]])
          ELSE textColor[n]]
    /\ rubyChanged' = [rubyChanged EXCEPT !.world = {}]
    /\ fontChanged' = [fontChanged EXCEPT !.world = {}]
    /\ pc' = "end"
    /\ UNCHANGED <<lifeVars, uiOutVars, layoutVars, world2dVars, marked, settings,
                   frameVars>>

\* the frame is over: the next Update begins
EndFrame ==
    /\ pc = "end"
    /\ pc' = "update"
    /\ addedInFrame' = {}
    /\ removedInFrame' = {}
    /\ rubyAge' = [e \in Ids |-> IF rubyAge[e] < 2 THEN rubyAge[e] + 1 ELSE 2]
    /\ UNCHANGED probe
    /\ UNCHANGED <<lifeVars, contentVars, changeVars, uiOutVars, layoutVars, world2dVars,
                   marked, settings>>

\* ------------------------------------------------------------------ user mutations
\* ResMut<FuriganaSettings>: update_ui_global_transform = !update_ui_global_transform
ToggleSettings ==
    /\ pc = "update"
    /\ settings' = ~settings
    /\ UNCHANGED <<lifeVars, contentVars, changeVars, uiOutVars, layoutVars, world2dVars,
                   marked, frameVars, pc>>

\* the user writes the TextFont of a base run
SetFont(e, f) ==
    /\ pc = "update"
    /\ e \in UserEntities
    /\ kind[e] \in {"text", "span", "text2d"}
    /\ f # textFont[e]
    /\ textFont' = [textFont EXCEPT ![e] = f]
    /\ fontChanged' = [s \in DOMAIN fontChanged |-> fontChanged[s] \cup {e}]
    /\ UNCHANGED <<lifeVars, text, textColor, rubyChanged, uiOutVars, layoutVars,
                   world2dVars, marked, settings, frameVars, pc>>

\* the user writes the TextColor of a base run
SetColor(e, c) ==
    /\ pc = "update"
    /\ e \in UserEntities
    /\ kind[e] \in {"text", "span", "text2d"}
    /\ c # textColor[e]
    /\ textColor' = [textColor EXCEPT ![e] = c]
    /\ UNCHANGED <<lifeVars, text, textFont, changeVars, uiOutVars, layoutVars,
                   world2dVars, marked, settings, frameVars, pc>>

\* insert(ChildOf(p)) on a TextSpan: the span becomes a child of p
SetParent(e, p) ==
    /\ pc = "update"
    /\ e \in UserEntities /\ p \in UserEntities
    /\ kind[e] = "span" /\ kind[p] # "span"
    /\ childOf[e] # p
    /\ childOf' = [childOf EXCEPT ![e] = p]
    /\ UNCHANGED <<alive, kind, ruby, rubyText, linkedRubyText, rubyText2d,
                   linkedRubyText2d, nextId, contentVars, changeVars, uiOutVars,
                   layoutVars, world2dVars, marked, settings, frameVars, pc>>

\* ------------------------------------------------------------------ initial world
FirstNode == Cardinality(SceneIds) + 1

\* the entity trees of the scene: they share no ancestor, so a world holds one of them
SceneTrees == {{Scene.root, Scene.block, Scene.span}, {Scene.lone},
               {Scene.block2d, Scene.span2d}}

NoProbe == [state |-> "off"]

\* the world after App::new, add_plugins(FuriganaPlugin) and the spawn of the tree S
\* of the scene, with render-target scale factor sf, the Text2d block at depth z
\* and the UiTransform block_t on the UI text block
InitWorld(S, sf, z, block_t) ==
    /\ alive = S
    /\ kind = [e \in Ids |-> IF e \in S THEN SceneKind[e] ELSE "none"]
    /\ childOf = [e \in Ids |-> IF e \in S THEN SceneParent[e] ELSE NoEntity]
    /\ ruby = [e \in Ids |-> NoRuby]
    /\ rubyText = [e \in Ids |-> NoEntity]
    /\ linkedRubyText = [e \in Ids |-> NoEntity]
    /\ rubyText2d = [e \in Ids |-> NoEntity]
    /\ linkedRubyText2d = [e \in Ids |-> NoEntity]
    /\ nextId = FirstNode
    /\ text = [e \in Ids |-> ""]
    /\ textFont = [e \in Ids |-> DefaultFont]
    /\ textColor = [e \in Ids |-> DefaultColor]
    /\ rubyChanged = [ui |-> {}, world |-> {}]
    /\ fontChanged = [ui |-> {}, world |-> {}]
    /\ node = [e \in Ids |-> [top |-> Auto, left |-> Auto]]
    /\ visibility = [e \in Ids |-> VisibilityDefault]
    /\ uiTransform = [e \in Ids |-> IF e \in S /\ SceneKind[e] = "text" THEN block_t
                                    ELSE UiTransformDefault]
    /\ uiGlobalTransform = [e \in Ids |-> AffineIdentity]
    /\ computedNode = [e \in Ids |-> ComputedDefault]
    /\ sectionRect = [e \in Ids |-> NoRect]
    /\ layoutSize = [e \in Ids |-> <<0, 0>>]
    /\ layoutScale = [e \in Ids |-> 1]
    /\ targetScale = sf
    /\ transform = [e \in Ids |-> IF e = Scene.block2d
                                  THEN [translation |-> <<5, 5, z>>, rotation |-> 0]
                                  ELSE TransformIdentity]
    /\ globalTransform = [e \in Ids |->
          IF e = Scene.block2d
          THEN [scale |-> <<1, 1>>, rotation |-> 0, translation |-> <<5, 5, z>>]
          ELSE GlobalTransformIdentity]
    /\ marked = {}
    /\ settings = TRUE
    /\ addedInFrame = {}
    /\ removedInFrame = {}
    /\ rubyAge = [e \in Ids |-> 2]
    /\ pc = "update"

\* ------------------------------------------------------------------ specifications
\* the lifecycle operations alone, on every tree of the scene
InitLife == probe = NoProbe /\ \E S \in SceneTrees : InitWorld(S, 1, 0, UiTransformDefault)

NextLife ==
    \/ \E e \in SceneIds, rt \in Rts : AddRuby(e, RubyNew(rt))
    \/ \E e \in SceneIds, rt \in Rts : SetRuby(e, RubyNew(rt))
    \/ \E e \in SceneIds : RemoveRuby(e)
    \/ \E e \in Ids : Despawn(e)

SpecLife == InitLife /\ [][NextLife]_vars

\* PostUpdate as FuriganaPlugin::build schedules it: update_ruby_text before
\* UiSystems::Layout, update_ruby after it; update_ruby_2d before
\* Text2dUpdateSystems, update_ruby_text_2d after it.  G and R are the boxes and the
\* run rectangles the external passes may produce.
PostUpdate(G, R) ==
    \/ update_ruby_text
    \/ \E g \in G, rect \in R : UiLayout(g, rect)
    \/ update_ruby
    \/ update_ruby_2d
    \/ \E rect \in R : Text2dUpdate(rect)
    \/ update_ruby_text_2d
    \/ EndFrame

\* the runs the user annotates in the frame specifications: those without spans below
Leaves == {e \in UserEntities : ~\E c \in alive : childOf[c] = e}

PlainGeom == CHOOSE g \in BlockGeoms : g.border = <<0, 0>>

\* lifecycle over frames: one annotated run per world, one layout outcome
FrameTrees == {{Scene.root, Scene.block, Scene.span}, {Scene.lone}, {Scene.block2d},
               {Scene.block2d, Scene.span2d}}

InitFrame == probe = NoProbe /\ \E S \in FrameTrees : InitWorld(S, 1, 0, UiTransformDefault)

NextFrame ==
    \/ \E e \in Leaves, rt \in Rts : AddRuby(e, RubyNew(rt))
    \/ \E e \in Leaves : RemoveRuby(e)
    \/ \E e \in Ids : Despawn(e)
    \/ PostUpdate({PlainGeom}, {Rect(10, 0, 50, 20)})

SpecFrame == InitFrame /\ [][NextFrame]_vars

\* ------------------------------------------------------------------ the anchor on its own
\* run rectangles, in layout pixels
AnchorRects == {Rect(10, 0, 50, 20), Rect(20, 20, 80, 40), Rect(0, 0, 40, 20),
                Rect(-10, 4, 30, 24), Rect(0, 0, 0, 0)}

\* widths of the annotation node
AnchorWidths == {0, 16, 20, 40}

NoAnchor == <<>>

\* every combination of run rectangle, alignment, position and annotation width
InitAnchor ==
    /\ \E R \in AnchorRects, a \in RubyAlign, p \in RubyPosition, w \in AnchorWidths :
          probe = [state |-> "args", rect |-> R, align |-> a, position |-> p, w |-> w,
                   ui |-> NoAnchor, world |-> NoAnchor]
    /\ InitWorld({Scene.lone}, 1, 0, UiTransformDefault)

\* the anchor computation of update_ruby applied to the arguments
AnchorUi ==
    /\ probe.state = "args"
    /\ probe.ui = NoAnchor
    /\ probe' = [probe EXCEPT !.ui = ruby_pos_local_topleft(probe.rect, probe.align,
                                                            probe.position, probe.w)]
    /\ UNCHANGED <<lifeVars, contentVars, changeVars, uiOutVars, layoutVars, world2dVars,
                   marked, settings, addedInFrame, removedInFrame, rubyAge, pc>>

\* the anchor computation of update_ruby_2d applied to the arguments
Anchor2d ==
    /\ probe.state = "args"
    /\ probe.world = NoAnchor
    /\ probe' = [probe EXCEPT !.world = ruby_pos_local(probe.rect, probe.align,
                                                       probe.position, probe.w)]
    /\ UNCHANGED <<lifeVars, contentVars, changeVars, uiOutVars, layoutVars, world2dVars,
                   marked, settings, addedInFrame, removedInFrame, rubyAge, pc>>

NextAnchor == AnchorUi \/ Anchor2d

SpecAnchor == InitAnchor /\ [][NextAnchor]_vars

\* ------------------------------------------------------------------ placement over frames
\* the Placement pass of the flow regime once more, right after it ran: nothing it
\* reads was written in between
RerunUi ==
    /\ pc = "place2d"
    /\ update_ruby_run
    /\ pc' = "again"

\* the Placement pass of the world regime once more, right after it ran
Rerun2d ==
    /\ pc = "shape2d"
    /\ update_ruby_2d_run
    /\ pc' = "again2d"

\* a block turned a quarter and scaled by two
TurnedScaled == [scale |-> <<2, 2>>, rotation |-> 1]

\* the worlds placement is checked in: tree, render-target scale factor, depth of the
\* Text2d block (hundredths) and UiTransform of the UI text block
PlaceWorlds ==
    {[tree |-> {Scene.root, Scene.block}, sf |-> 1, z |-> 0, block_t |-> UiTransformDefault],
     [tree |-> {Scene.root, Scene.block, Scene.span}, sf |-> 2, z |-> 0,
      block_t |-> TurnedScaled],
     [tree |-> {Scene.lone}, sf |-> 1, z |-> 0, block_t |-> TurnedScaled],
     [tree |-> {Scene.block2d}, sf |-> 2, z |-> 100, block_t |-> UiTransformDefault],
     [tree |-> {Scene.block2d, Scene.span2d}, sf |-> 1, z |-> 0,
      block_t |-> UiTransformDefault]}

\* the annotations the user gives a run
PlaceRubies == {RubyNew("a"),
                [RubyNew("a") EXCEPT !.align = "Start", !.position = "Under"]}

InitPlace ==
    /\ probe = NoProbe
    /\ \E w \in PlaceWorlds : InitWorld(w.tree, w.sf, w.z, w.block_t)

NextPlace ==
    \/ \E e \in Leaves, r \in PlaceRubies : AddRuby(e, r)
    \/ \E e \in Leaves, r \in PlaceRubies : SetRuby(e, r)
    \/ ToggleSettings
    \/ PostUpdate(BlockGeoms, RectChoices \cup {NoRect})
    \/ RerunUi
    \/ Rerun2d

SpecPlace == InitPlace /\ [][NextPlace]_vars

\* ------------------------------------------------------------------ sync over frames
\* the values a Ruby's fields take
RubyValues ==
    [present : {TRUE}, rt : Rts, position : RubyPosition, align : RubyAlign,
     font_size_scale : {1, 2}, color : {NoColor, "red"}]

RubyFields == {"rt", "position", "align", "font_size_scale", "color"}

\* the Rubies that differ from r in exactly one field
OneFieldChanges(r) ==
    IF r.present
    THEN {x \in RubyValues : Cardinality({f \in RubyFields : x[f] # r[f]}) = 1}
    ELSE {}

SyncTrees == {{Scene.root, Scene.block}, {Scene.lone}, {Scene.block2d}}

InitSync ==
    /\ probe = NoProbe
    /\ \E S \in SyncTrees : InitWorld(S, 1, 0, UiTransformDefault)

NextSync ==
    \/ \E e \in Leaves : AddRuby(e, RubyNew("a"))
    \/ \E e \in Leaves : \E r \in OneFieldChanges(ruby[e]) : SetRuby(e, r)
    \/ PostUpdate({PlainGeom}, {Rect(10, 0, 50, 20)})

SpecSync == InitSync /\ [][NextSync]_vars

\* ------------------------------------------------------------------ colour over frames
BaseColors == {DefaultColor, "green"}

\* the annotations of the colour worlds: colour inherited or overridden
ColorRubies == {RubyNew("a"), [RubyNew("a") EXCEPT !.color = "red"]}

InitColor ==
    /\ probe = NoProbe
    /\ \E S \in SyncTrees : InitWorld(S, 1, 0, UiTransformDefault)

NextColor ==
    \/ \E e \in Leaves, r \in ColorRubies : AddRuby(e, r)
    \/ \E e \in Leaves, r \in ColorRubies : SetRuby(e, r)
    \/ \E e \in Leaves, c \in BaseColors : SetColor(e, c)
    \/ PostUpdate({PlainGeom}, {Rect(10, 0, 50, 20)})

SpecColor == InitColor /\ [][NextColor]_vars

\* ------------------------------------------------------------------ hosts over frames
\* a stray TextSpan next to a UI block under a plain node, a parentless UI block
\* or a Text2d block
HostTrees == {{Scene.root, Scene.block, Scene.stray}, {Scene.lone, Scene.stray},
              {Scene.block2d, Scene.stray}}

\* the entities the user annotates in the host worlds: the stray span and the plain node
HostTargets == {Scene.stray, Scene.root}

InitHost ==
    /\ probe = NoProbe
    /\ \E S \in HostTrees : InitWorld(S, 1, 0, UiTransformDefault)

NextHost ==
    \/ \E e \in HostTargets, rt \in Rts : AddRuby(e, RubyNew(rt))
    \/ \E e \in HostTargets, rt \in Rts : SetRuby(e, RubyNew(rt))
    \/ \E p \in SceneIds : SetParent(Scene.stray, p)
    \/ PostUpdate({PlainGeom}, {Rect(10, 0, 50, 20)})

SpecHost == InitHost /\ [][NextHost]_vars

\* ------------------------------------------------------------------ the world point on its own
\* block-local anchors
WorldLocals == {<<30, -10>>, <<30, 0>>, <<18, 20>>, <<42, 0>>, <<0, 0>>, <<50, 10>>}

\* layout sizes of the block
WorldSizes == {<<100, 20>>, <<40, 40>>}

\* global transforms of the block: identity, translated, translated in depth,
\* turned a quarter and translated, scaled and translated
WorldGlobals ==
    {GlobalTransformIdentity,
     [scale |-> <<1, 1>>, rotation |-> 0, translation |-> <<5, 5, 0>>],
     [scale |-> <<1, 1>>, rotation |-> 0, translation |-> <<5, 5, 100>>],
     [scale |-> <<1, 1>>, rotation |-> 1, translation |-> <<5, 5, 0>>],
     [scale |-> <<2, 2>>, rotation |-> 0, translation |-> <<-4, 6, 0>>]}

\* z of the annotation node before the pass (hundredths)
WorldDepths == {0, 1}

InitWorldPoint ==
    /\ \E l \in WorldLocals, sz \in WorldSizes, G \in WorldGlobals, z \in WorldDepths :
          probe = [state |-> "point", local |-> l, size |-> sz, global |-> G, z |-> z,
                   centred |-> NoAnchor, out |-> NoAnchor]
    /\ InitWorld({Scene.block2d}, 1, 0, UiTransformDefault)

\* ruby_pos of update_ruby_2d applied to the arguments
CentreFlip ==
    /\ probe.state = "point"
    /\ probe.centred = NoAnchor
    /\ probe' = [probe EXCEPT !.centred = ruby_pos(probe.local, probe.z, probe.size)]
    /\ UNCHANGED <<lifeVars, contentVars, changeVars, uiOutVars, layoutVars, world2dVars,
                   marked, settings, addedInFrame, removedInFrame, rubyAge, pc>>

\* ruby_pos_global of update_ruby_2d applied to the centred point
ToWorld ==
    /\ probe.state = "point"
    /\ probe.centred # NoAnchor
    /\ probe.out = NoAnchor
    /\ probe' = [probe EXCEPT !.out = transform_point(probe.global, probe.centred)]
    /\ UNCHANGED <<lifeVars, contentVars, changeVars, uiOutVars, layoutVars, world2dVars,
                   marked, settings, addedInFrame, removedInFrame, rubyAge, pc>>

NextWorldPoint == CentreFlip \/ ToWorld

SpecWorldPoint == InitWorldPoint /\ [][NextWorldPoint]_vars

\* ------------------------------------------------------------------ claims: lifecycle
\* the annotation nodes bound to spec entity e in either regime
BoundNodes(e) == {n \in alive : rubyText[n] = e \/ rubyText2d[n] = e}

\* C1: right after a Ruby is added to a UI Text block (with or without a parent) or to
\* a Text2d block, the entity is bound to exactly one annotation node and that node's
\* text is the Ruby's rt
C1_AddBindsOneNode ==
    [][\A e \in SceneIds :
          (e \in alive /\ kind[e] \in {"text", "text2d"}
             /\ ~ruby[e].present /\ ruby'[e].present)
          => /\ Cardinality(BoundNodes(e)') = 1
             /\ \A n \in BoundNodes(e)' :
                  /\ text'[n] = ruby'[e].rt
                  /\ n \in {linkedRubyText'[e], linkedRubyText2d'[e]}]_vars

\* a Text block without a parent got its node by an add
C1_Witness ==
    /\ pc = "update"
    /\ \E e \in SceneIds :
          /\ HasRuby(e) /\ e \in addedInFrame
          /\ kind[e] = "text" /\ childOf[e] = NoEntity
          /\ linkedRubyText[e] \in alive
          /\ text[linkedRubyText[e]] = ruby[e].rt

\* C2: when a bound spec entity is despawned its annotation node is gone with it and
\* never comes back (so it is gone at the end of the frame); despawning the annotation
\* node does not take the spec entity along
C2_DespawnCascade ==
    /\ [](\A n \in alive : rubyText[n] # NoEntity => rubyText[n] \notin Despawned(n))
    /\ [](\A n \in alive : rubyText2d[n] # NoEntity => rubyText2d[n] \notin Despawned(n))
    /\ [][/\ \A e \in SceneIds :
               (e \in alive /\ e \notin alive')
               => /\ linkedRubyText[e] \notin alive'
                  /\ linkedRubyText2d[e] \notin alive'
          /\ \A x \in Ids : (x \notin alive /\ (x \in SceneIds \/ x < nextId))
                              => x \notin alive']_vars

\* the frame ended after the user despawned an annotated run: the run and its node
\* are gone, the rest of the tree is there
C2_Witness ==
    /\ pc = "end"
    /\ Scene.root \in alive /\ Scene.block \in alive /\ Scene.span \notin alive
    /\ nextId = FirstNode + 1
    /\ FirstNode \notin alive

\* C3: each spec entity has at most one binding per regime, the binding is
\* bidirectional and the bound node exists
C3_BindingInvariant ==
    \A e \in Ids :
        /\ Cardinality({n \in alive : rubyText[n] = e}) <= 1
        /\ Cardinality({n \in alive : rubyText2d[n] = e}) <= 1
        /\ linkedRubyText[e] # NoEntity
              => (linkedRubyText[e] \in alive /\ rubyText[linkedRubyText[e]] = e)
        /\ linkedRubyText2d[e] # NoEntity
              => (linkedRubyText2d[e] \in alive /\ rubyText2d[linkedRubyText2d[e]] = e)
        /\ (e \in alive /\ rubyText[e] # NoEntity)
              => (rubyText[e] \in alive /\ linkedRubyText[rubyText[e]] = e)
        /\ (e \in alive /\ rubyText2d[e] # NoEntity)
              => (rubyText2d[e] \in alive /\ linkedRubyText2d[rubyText2d[e]] = e)

\* a Ruby was removed and added again: the run is bound to the second node while the
\* first one is still there
C3_Witness ==
    \E e \in SceneIds :
        /\ HasRuby(e)
        /\ linkedRubyText[e] \in alive
        /\ \E n \in alive : kind[n] = "rt" /\ n < linkedRubyText[e] /\ rubyText[n] = NoEntity

\* C4: removing the Ruby from an entity that stays alive destroys the bound annotation
\* node; without a binding the removal changes nothing else
C4_RemoveDestroysNode ==
    [][\A e \in SceneIds :
          (e \in alive' /\ ruby[e].present /\ ~ruby'[e].present)
          => /\ linkedRubyText[e] # NoEntity => linkedRubyText[e] \notin alive'
             /\ linkedRubyText2d[e] # NoEntity => linkedRubyText2d[e] \notin alive'
             /\ (linkedRubyText[e] = NoEntity /\ linkedRubyText2d[e] = NoEntity)
                   => alive' = alive]_vars

\* C5: a Ruby added again in a frame after its removal binds the entity to exactly one
\* node, a new entity, and the node of the earlier Ruby no longer exists
C5_ReAddFreshNode ==
    [][\A e \in SceneIds :
          (e \in alive /\ e \notin removedInFrame
             /\ (add_ruby(e) \/ add_ruby_text_span(e) \/ add_ruby_2d(e)
                   \/ add_ruby_text_span_2d(e))
             /\ ~ruby[e].present /\ ruby'[e].present)
          => /\ Cardinality(BoundNodes(e)') = 1
             /\ \A n \in BoundNodes(e)' : n \notin alive
             /\ linkedRubyText[e] # NoEntity => linkedRubyText[e] \notin alive'
             /\ linkedRubyText2d[e] # NoEntity => linkedRubyText2d[e] \notin alive']_vars

C7_PlacementIdempotent ==
    [][/\ pc' = "again" => /\ node' = node
                           /\ uiTransform' = uiTransform
                           /\ uiGlobalTransform' = uiGlobalTransform
                           /\ marked' = {}
       /\ pc' = "again2d" => /\ transform' = transform
                             /\ \A m \in marked' : m[2] # "Transform"]_vars

\* the global transform the claim gives the annotation node of e: the scale and the
\* rotation of the block's global transform, at the global anchor point
GlobalAtAnchor(e) ==
    LET b == NodeEntity(e)
        anchor == ruby_pos_local_topleft(sectionRect[e], ruby[e].align, ruby[e].position,
                                         computedNode[linkedRubyText[e]].size[1])
    IN  Affine2(uiGlobalTransform[b].x_axis, uiGlobalTransform[b].y_axis,
                transform_point2(uiGlobalTransform[b],
                                 Sub2(anchor, Half(computedNode[b].size))))

\* C8: with the flag true, at the end of the frame in which a UI node was created and
\* placed its global transform holds the block's global scale and rotation and the
\* global anchor point
C8_SameFrameGlobal ==
    pc = "end" =>
        \A e \in addedInFrame :
            (PlacedUi(e) /\ settings)
            => uiGlobalTransform[linkedRubyText[e]] = GlobalAtAnchor(e)

\* a frame ends in which a run under a turned and scaled block got its node, and the
\* node's global transform is the one of that placement
C8_Witness ==
    /\ pc = "end" /\ settings
    /\ \E e \in addedInFrame :
          /\ PlacedUi(e)
          /\ uiTransform[NodeEntity(e)] = TurnedScaled
          /\ uiGlobalTransform[linkedRubyText[e]] = GlobalAtAnchor(e)
          /\ uiGlobalTransform[linkedRubyText[e]].x_axis # <<1, 0>>
          /\ ~node[linkedRubyText[e]].top.auto

\* C9: the flag is true at first; a Placement pass with the flag true writes the
\* global transform of every node it places, one with the flag false leaves every
\* global transform alone and still writes top, left and the local scale and rotation
C9_FlagGates ==
    /\ settings = TRUE
    /\ [][(pc = "place" /\ pc' = "place2d") =>
            \A n \in Ids :
               IF PlacerUi(n) = NoEntity
               THEN uiGlobalTransform'[n] = uiGlobalTransform[n]
               ELSE LET e == PlacerUi(n) IN
                    /\ settings => uiGlobalTransform'[n] = GlobalAtAnchor(e)
                    /\ ~settings => uiGlobalTransform'[n] = uiGlobalTransform[n]
                    /\ node'[n] = [top |-> Px(RubyTopLeft(e)[2]),
                                   left |-> Px(RubyTopLeft(e)[1])]
                    /\ uiTransform'[n] = uiTransform[NodeEntity(e)]]_vars

\* a Placement pass has run with the flag false on a turned and scaled block: the
\* node has its insets and its local transform, and its global transform is not the
\* one of the placement
C9_Witness ==
    /\ pc = "place2d" /\ ~settings
    /\ \E e \in Ids :
          /\ PlacedUi(e)
          /\ ~node[linkedRubyText[e]].top.auto
          /\ uiTransform[linkedRubyText[e]] = TurnedScaled
          /\ uiGlobalTransform[linkedRubyText[e]] # GlobalAtAnchor(e)

\* ------------------------------------------------------------------ claims: sync
\* C10: at the end of the frame after the one in which a field of a bound Ruby was
\* changed (the base font untouched), the node shows the Ruby's rt, its font size is
\* the base font size times font_size_scale, its colour is the Ruby's colour and it
\* is placed by the Ruby's position and align
C10_FieldChangeReflected ==
    pc = "end" =>
        \A e \in Ids :
            (HasRuby(e) /\ rubyAge[e] >= 1) =>
                /\ PairUi(e) =>
                     LET n == linkedRubyText[e] IN
                     /\ text[n] = ruby[e].rt
                     /\ 2 * textFont[n].font_size
                           = textFont[e].font_size * ruby[e].font_size_scale
                     /\ ruby[e].color # NoColor => textColor[n] = ruby[e].color
                     /\ PlacedUi(e) => node[n] = [top |-> Px(RubyTopLeft(e)[2]),
                                                  left |-> Px(RubyTopLeft(e)[1])]
                /\ Pair2d(e) =>
                     LET n == linkedRubyText2d[e] IN
                     /\ text[n] = ruby[e].rt
                     /\ 2 * textFont[n].font_size
                           = textFont[e].font_size * ruby[e].font_size_scale
                     /\ ruby[e].color # NoColor => textColor[n] = ruby[e].color
                     /\ Placed2d(e) => transform[n] = RubyTransform2d(e)

\* the colour Sync gives the node of spec entity e: the Ruby's colour when it is set,
\* the base run's colour otherwise
MirroredColor(e) == IF ruby[e].color # NoColor THEN ruby[e].color ELSE textColor[e]

\* C11: after every Sync pass the colour of every bound node, in either regime, is
\* the Ruby's colour when it is set and the base run's current colour otherwise
C11_ColorMirrors ==
    /\ pc = "layout" => \A n \in Ids : SyncPairUi(n) => textColor[n] = MirroredColor(rubyText[n])
    /\ pc = "end" => \A n \in Ids : SyncPair2d(n) => textColor[n] = MirroredColor(rubyText2d[n])

\* ------------------------------------------------------------------ claims: visibility
\* C12: a UI annotation node is spawned hidden with a zero offset, stays hidden in
\* every step that does not place it, and the Placement pass that places it makes it
\* visible
C12_HiddenUntilPlaced ==
    /\ [][\A n \in NodeIds :
            (n \notin alive /\ n \in alive' /\ kind'[n] = "rt")
            => /\ visibility'[n] = "Hidden"
               /\ ValPx(node'[n].top) = 0 /\ ValPx(node'[n].left) = 0]_vars
    /\ [][\A n \in NodeIds :
            (n \in alive /\ n \in alive' /\ kind[n] = "rt" /\ visibility[n] = "Hidden"
               /\ ~(pc = "place" /\ PlacerUi(n) # NoEntity))
            => visibility'[n] = "Hidden"]_vars
    /\ [][\A n \in NodeIds :
            (pc = "place" /\ pc' = "place2d" /\ PlacerUi(n) # NoEntity)
            => visibility'[n] # "Hidden"]_vars

\* ------------------------------------------------------------------ claims: hosts
\* e is a text block, or a fragment whose parent is a text block
HostResolves(e) ==
    \/ kind[e] \in {"text", "text2d"}
    \/ kind[e] = "span" /\ childOf[e] \in alive /\ kind[childOf[e]] \in {"text", "text2d"}

\* e carries no binding and no node is bound to it
Unbound(e) ==
    /\ linkedRubyText[e] = NoEntity /\ linkedRubyText2d[e] = NoEntity
    /\ BoundNodes(e) = {}

\* C13: a Ruby added to an entity that is neither a text block nor a fragment of one
\* spawns nothing and binds nothing, and a spec that is unbound stays unbound in
\* every later step, also once the entity has become a fragment of a text block
C13_UnresolvedStaysUnbound ==
    /\ [][\A e \in SceneIds :
            (e \in alive /\ ~ruby[e].present /\ ruby'[e].present /\ ~HostResolves(e))
            => (alive' = alive /\ Unbound(e)')]_vars
    /\ [][\A e \in SceneIds :
            (HasRuby(e) /\ Unbound(e) /\ ruby'[e].present) => Unbound(e)']_vars

\* a frame ends, after the one of the add, in which the stray span carries an
\* unbound Ruby and has meanwhile become a fragment of a text block
C13_Witness ==
    /\ pc = "end"
    /\ HasRuby(Scene.stray) /\ rubyAge[Scene.stray] >= 1
    /\ HostResolves(Scene.stray)
    /\ Unbound(Scene.stray)
    /\ alive \cap NodeIds = {}

\* C14: a bound UI annotation node is a child of the text block's parent (for a
\* fragment: of its grandparent), never of the block or of the fragment; a bound
\* world annotation node has no parent
C14_RenderParent ==
    \A n \in alive :
        /\ rubyText[n] # NoEntity =>
              LET e == rubyText[n]
                  block == IF kind[e] = "span" THEN childOf[e] ELSE e
              IN  /\ childOf[n] = childOf[block]
                  /\ childOf[n] \notin {block, e}
        /\ rubyText2d[n] # NoEntity => childOf[n] = NoEntity

\* a UI block under a parent and its fragment are both annotated, and both nodes
\* are children of the block's parent
C14_Witness ==
    /\ HasRuby(Scene.block) /\ HasRuby(Scene.span)
    /\ linkedRubyText[Scene.block] \in alive /\ linkedRubyText[Scene.span] \in alive
    /\ childOf[linkedRubyText[Scene.block]] = Scene.root
    /\ childOf[linkedRubyText[Scene.span]] = Scene.root

\* C15: a spec on a UI Text block or on a fragment of one never carries a
\* LinkedRubyText2d, and a spec on a Text2d block or on a fragment of one never
\* carries a LinkedRubyText
C15_OneRegime ==
    \A e \in alive \cap SceneIds :
        LET block == IF kind[e] = "span" THEN childOf[e] ELSE e IN
        /\ (block \in alive /\ kind[block] = "text") => linkedRubyText2d[e] = NoEntity
        /\ (block \in alive /\ kind[block] = "text2d") => linkedRubyText[e] = NoEntity

\* a fragment of a Text2d block is bound to a world node and to no UI node
C15_Witness ==
    /\ HasRuby(Scene.span2d)
    /\ kind[childOf[Scene.span2d]] = "text2d"
    /\ linkedRubyText2d[Scene.span2d] \in alive
    /\ linkedRubyText[Scene.span2d] = NoEntity

\* ------------------------------------------------------------------ claims: world point
\* the block's world transform is the identity translated by (5,5,0)
TranslatedBy55 ==
    probe.global = [scale |-> <<1, 1>>, rotation |-> 0, translation |-> <<5, 5, 0>>]

\* C16 as stated: the local point (30,-10) with half size (50,10) is (-20,10) after
\* centring and the y-flip, and (-15,15) in a world translated by (5,5,0)
C16_WorldPointAsStated ==
    (probe.state = "point" /\ probe.local = <<30, -10>> /\ Half(probe.size) = <<50, 10>>)
    => /\ probe.centred # NoAnchor
            => (probe.centred[1] = -20 /\ probe.centred[2] = 10)
       /\ (probe.out # NoAnchor /\ TranslatedBy55)
            => (probe.out[1] = -15 /\ probe.out[2] = 15)

\* C16 amended: it is the local point (30,0) that becomes (-20,10) after centring
\* and the y-flip and (-15,15) in the translated world; in general the centred
\* point is (x - w/2, -(y - h/2)) and an unturned, unscaled block adds its translation
C16_WorldPoint ==
    probe.state = "point" =>
        /\ probe.centred # NoAnchor =>
              /\ 2 * probe.centred[1] = 2 * probe.local[1] - probe.size[1]
              /\ 2 * probe.centred[2] = probe.size[2] - 2 * probe.local[2]
              /\ (probe.local = <<30, 0>> /\ Half(probe.size) = <<50, 10>>)
                    => (probe.centred[1] = -20 /\ probe.centred[2] = 10)
        /\ probe.out # NoAnchor =>
              /\ (probe.global.scale = <<1, 1>> /\ probe.global.rotation = 0)
                    => /\ probe.out[1] = probe.centred[1] + probe.global.translation[1]
                       /\ probe.out[2] = probe.centred[2] + probe.global.translation[2]
              /\ (probe.local = <<30, 0>> /\ Half(probe.size) = <<50, 10>> /\ TranslatedBy55)
                    => (probe.out[1] = -15 /\ probe.out[2] = 15)

\* the local point (30,0) of a block of size (100,20) translated by (5,5,0) has been
\* centred, flipped and taken to the world
C16_Witness ==
    /\ probe.state = "point"
    /\ probe.local = <<30, 0>> /\ probe.size = <<100, 20>> /\ TranslatedBy55
    /\ probe.centred # NoAnchor /\ probe.centred[1] = -20 /\ probe.centred[2] = 10
    /\ probe.out # NoAnchor /\ probe.out[1] = -15 /\ probe.out[2] = 15

\* ------------------------------------------------------------------ order of the passes
\* the fonts the user gives a base run
FontChoices == {DefaultFont, [font |-> "default", font_size |-> 40]}

InitOrder ==
    /\ probe = NoProbe
    /\ \E S \in SyncTrees : InitWorld(S, 1, 0, UiTransformDefault)

NextOrder ==
    \/ \E e \in Leaves : AddRuby(e, RubyNew("a"))
    \/ \E e \in Leaves, rt \in Rts : SetRuby(e, [ruby[e] EXCEPT !.rt = rt])
    \/ \E e \in Leaves, f \in FontChoices : SetFont(e, f)
    \/ PostUpdate({PlainGeom}, RectChoices)

SpecOrder == InitOrder /\ [][NextOrder]_vars

\* C17: in both regimes Sync and node creation run before the frame's layout/shaping
\* pass, so at the end of every frame the measure the shaping pass took of an
\* annotation node is the measure of the font the node carries
C17_SyncBeforeShaping ==
    pc = "end" =>
        \A n \in alive :
            /\ (kind[n] = "rt" /\ rubyText[n] # NoEntity) => computedNode[n].size = RtSize(n)
            /\ (kind[n] = "rt2d" /\ rubyText2d[n] # NoEntity) => layoutSize[n] = RtSize(n)

\* C18: in both regimes Placement reads the run rectangle of the same frame's shaping
\* pass: at the end of a frame the position a pair's node was given is the one the
\* frame's own rectangle yields (pairs whose Ruby was written in an earlier frame)
C18_FreshRectangle ==
    pc = "end" =>
        \A e \in alive :
            (HasRuby(e) /\ rubyAge[e] >= 1) =>
                /\ PlacedUi(e) =>
                      /\ node[linkedRubyText[e]].left = Px(RubyTopLeft(e)[1])
                      /\ node[linkedRubyText[e]].top = Px(RubyTopLeft(e)[2])
                /\ Placed2d(e) =>
                      /\ transform[linkedRubyText2d[e]].translation[1]
                            = RubyTransform2d(e).translation[1]
                      /\ transform[linkedRubyText2d[e]].translation[2]
                            = RubyTransform2d(e).translation[2]

\* a bound flow pair whose block has been shaped without a rectangle for the run
RunAbsentUi(e) ==
    /\ PairUi(e)
    /\ (kind[e] = "span" => HasChildOf(e))
    /\ HasText(NodeEntity(e))
    /\ IsUiNode(NodeEntity(e))
    /\ IsUiNode(linkedRubyText[e])
    /\ ~sectionRect[e].present

\* a bound world pair whose block has been shaped without a rectangle for the run
RunAbsent2d(e) ==
    /\ Pair2d(e)
    /\ (kind[e] = "span" => HasChildOf(e))
    /\ HasLayoutInfo(NodeEntity(e))
    /\ HasLayoutInfo(linkedRubyText2d[e])
    /\ HasText2d(linkedRubyText2d[e])
    /\ HasText2d(NodeEntity(e))
    /\ ~sectionRect[e].present

\* the world placement of the pair of e for the zero-size rectangle at the origin
ZeroRectTransform2d(e) ==
    LET b == NodeEntity(e)
        rt == linkedRubyText2d[e]
        local == ruby_pos_local(Rect(0, 0, 0, 0), ruby[e].align, ruby[e].position,
                                layoutSize[rt][1])
    IN  [translation |-> transform_point(globalTransform[b],
                             ruby_pos(local, transform[rt].translation[3], layoutSize[b])),
         rotation |-> globalTransform[b].rotation]

\* C19: when the run of a bound pair is absent from the shaping output, the Placement
\* pass does not skip the pair: in the flow regime it writes the node (its UiTransform
\* is assigned), in the world regime the node gets the placement of the zero rectangle
C19_ZeroRectFallback ==
    [][/\ (pc = "place" /\ pc' = "place2d") =>
              \A e \in alive : RunAbsentUi(e) =>
                  <<linkedRubyText[e], "UiTransform">> \in marked'
       /\ (pc = "place2d" /\ pc' = "shape2d") =>
              \A e \in alive : RunAbsent2d(e) =>
                  transform'[linkedRubyText2d[e]] = ZeroRectTransform2d(e)]_vars

\* C20: in the world regime the depth of an annotation node stays the one fixed at
\* its creation, the block's z + 0.01, however many Placement passes have run and
\* whatever the block's global transform is
C20_DepthPreserved ==
    \A e \in alive :
        Pair2d(e) =>
            transform[linkedRubyText2d[e]].translation[3]
                = transform[Block2dOf(e)].translation[3] + 1

\* a world pair that Placement places under a block that is neither turned nor scaled
PlacedUnturned2d(e) ==
    /\ Placed2d(e)
    /\ globalTransform[NodeEntity(e)].scale = <<1, 1>>
    /\ globalTransform[NodeEntity(e)].rotation = 0

\* the rectangle rect with its corners divided by s
ScaledDown(rect, s) ==
    [present |-> TRUE,
     min |-> <<rect.min[1] \div s, rect.min[2] \div s>>,
     max |-> <<rect.max[1] \div s, rect.max[2] \div s>>]

\* the world x, y of the anchor of rect for the pair of e under an unturned block
WorldXY(e, rect) ==
    LET b == NodeEntity(e)
        local == ruby_pos_local(rect, ruby[e].align, ruby[e].position,
                                layoutSize[linkedRubyText2d[e]][1])
    IN  <<local[1] - layoutSize[b][1] \div 2 + globalTransform[b].translation[1],
          layoutSize[b][2] \div 2 - local[2] + globalTransform[b].translation[2]>>

\* the x, y of the translation of node n
NodeXY(n) == <<transform[n].translation[1], transform[n].translation[2]>>

\* C21 as stated: in the world regime the anchor is computed from the run rectangle
\* exactly as the shaping pass reports it, for every scale factor
C21_RectAsReported ==
    [][(pc = "place2d" /\ pc' = "shape2d") =>
          \A e \in alive : PlacedUnturned2d(e) =>
              NodeXY(linkedRubyText2d[e])' = WorldXY(e, sectionRect[e])]_vars

\* C21 amended: in the world regime the anchor is computed from the run rectangle
\* with its corners divided by the scale factor of the shaping output (so exactly as
\* reported when that factor is 1); no border correction is applied
C21_RectByScaleFactor ==
    [][(pc = "place2d" /\ pc' = "shape2d") =>
          \A e \in alive : PlacedUnturned2d(e) =>
              /\ NodeXY(linkedRubyText2d[e])'
                    = WorldXY(e, ScaledDown(sectionRect[e], layoutScale[NodeEntity(e)]))
              /\ layoutScale[NodeEntity(e)] = 1 =>
                    NodeXY(linkedRubyText2d[e])' = WorldXY(e, sectionRect[e])]_vars

\* a pair has just been placed under scale factor 2: its node sits at the anchor of
\* the halved rectangle, which is not the anchor of the rectangle as reported
C21_Witness ==
    /\ pc = "shape2d"
    /\ \E e \in alive :
          /\ PlacedUnturned2d(e)
          /\ layoutScale[NodeEntity(e)] = 2
          /\ NodeXY(linkedRubyText2d[e]) = WorldXY(e, ScaledDown(sectionRect[e], 2))
          /\ NodeXY(linkedRubyText2d[e]) # WorldXY(e, sectionRect[e])

\* ------------------------------------------------------------------ the written offset
\* a text block without border laid out with its centre at the origin of the target
CentredGeom == [size |-> <<100, 40>>, content_size |-> <<100, 40>>, border |-> <<0, 0>>,
                location |-> <<-50, -20>>]

\* the worlds the offset is checked in (tree, scale factor, depth, UiTransform of the
\* block)
OffsetWorlds ==
    {[tree |-> {Scene.root, Scene.block}, sf |-> 2, z |-> 0, block_t |-> UiTransformDefault],
     [tree |-> {Scene.root, Scene.block, Scene.span}, sf |-> 1, z |-> 0,
      block_t |-> TurnedScaled],
     [tree |-> {Scene.lone}, sf |-> 1, z |-> 0, block_t |-> UiTransformDefault]}

InitOffset ==
    /\ probe = NoProbe
    /\ \E w \in OffsetWorlds : InitWorld(w.tree, w.sf, w.z, w.block_t)

NextOffset ==
    \/ \E e \in Leaves, r \in PlaceRubies : AddRuby(e, r)
    \/ \E e \in Leaves, r \in PlaceRubies : SetRuby(e, r)
    \/ PostUpdate(BlockGeoms \cup {CentredGeom}, RectChoices)

SpecOffset == InitOffset /\ [][NextOffset]_vars

\* the translation of a 2D affine transform
TranslationOf(A) == A.translation

\* C22: the offset written in the flow regime is (inverse(parent global transform)
\* applied to the global anchor point + parent.size/2 - parent border (left, top)
\* - node.size/2) divided by the parent's scale factor, the global anchor point being
\* the translation the pass gives the node's global transform; when the block's and
\* the parent's global transforms are identity the global anchor point is the
\* block-local anchor point
C22_WrittenOffset ==
    [][(pc = "place" /\ pc' = "place2d" /\ settings) =>
          \A e \in alive : PlacedUi(e) =>
              LET n == linkedRubyText[e]
                  b == NodeEntity(e)
                  p == ParentInfo(e)
                  anchor == TranslationOf(uiGlobalTransform'[n])
                  tl == Sub2(Sub2(Add2(transform_point2(AffineInverse(p.global), anchor),
                                       Half(p.computed.size)),
                                  p.computed.border),
                             Half(computedNode[n].size))
                  local == Sub2(ruby_pos_local_topleft(sectionRect[e], ruby[e].align,
                                                       ruby[e].position,
                                                       computedNode[n].size[1]),
                                Half(computedNode[b].size))
              IN  /\ node'[n].left = Px(tl[1] \div p.scale_factor)
                  /\ node'[n].top = Px(tl[2] \div p.scale_factor)
                  /\ (uiGlobalTransform[b] = AffineIdentity /\ p.global = AffineIdentity)
                        => anchor = local]_vars

\* a pair has just been placed whose block and parent have identity global
\* transforms: the node's global translation is the block-local anchor and the
\* written offset is that point less half the node's size
C22_Witness ==
    /\ pc = "place2d"
    /\ settings
    /\ \E e \in alive :
          LET n == linkedRubyText[e]
              b == NodeEntity(e)
              local == Sub2(ruby_pos_local_topleft(sectionRect[e], ruby[e].align,
                                                   ruby[e].position,
                                                   computedNode[n].size[1]),
                            Half(computedNode[b].size))
          IN  /\ PlacedUi(e)
              /\ uiGlobalTransform[b] = AffineIdentity
              /\ ParentInfo(e).global = AffineIdentity
              /\ TranslationOf(uiGlobalTransform[n]) = local
              /\ node[n].left = Px(local[1] - computedNode[n].size[1] \div 2)
              /\ node[n].top = Px(local[2] - computedNode[n].size[2] \div 2)

\* C23: in both regimes the anchor is re-centred into block space by half the
\* block's content size, also when a flow block's size differs from its content
\* size: the global anchor is the block's global transform applied to (anchor -
\* content_size / 2)
C23_RecentredByContentSize ==
    [][/\ (pc = "place" /\ pc' = "place2d" /\ settings) =>
              \A e \in alive : PlacedUi(e) =>
                  LET n == linkedRubyText[e]
                      b == NodeEntity(e)
                      topleft == ruby_pos_local_topleft(sectionRect[e], ruby[e].align,
                                                        ruby[e].position,
                                                        computedNode[n].size[1])
                  IN  TranslationOf(uiGlobalTransform'[n])
                          = transform_point2(uiGlobalTransform[b],
                                Sub2(topleft, Half(computedNode[b].content_size)))
       /\ (pc = "place2d" /\ pc' = "shape2d") =>
              \A e \in alive : PlacedUnturned2d(e) =>
                  NodeXY(linkedRubyText2d[e])'
                      = WorldXY(e, ScaledDown(sectionRect[e], layoutScale[NodeEntity(e)]))]_vars

\* C24: a Placement pass writes a stored placement only when the computed one
\* differs: a flow node's Node (top, left) is marked changed by a pass only if the
\* pass changed top or left, a world node's Transform only if the pass changed its
\* translation or rotation
C24_ChangeGatedWrites ==
    [][/\ ((pc = "place" /\ pc' = "place2d") \/ pc' = "again") =>
              \A n \in alive : <<n, "Node">> \in marked' => node'[n] # node[n]
       /\ ((pc = "place2d" /\ pc' = "shape2d") \/ pc' = "again2d") =>
              \A n \in alive : <<n, "Transform">> \in marked' => transform'[n] # transform[n]]_vars

\* the flow pass has run a second time over a placed pair whose stored top and left
\* equal the computed ones, and Node is not marked
C24_Witness ==
    /\ pc = "again"
    /\ \E e \in alive :
          /\ PlacedUi(e)
          /\ node[linkedRubyText[e]].left = Px(RubyTopLeft(e)[1])
          /\ node[linkedRubyText[e]].top = Px(RubyTopLeft(e)[2])
          /\ node[linkedRubyText[e]].left.px # 0
          /\ <<linkedRubyText[e], "Node">> \notin marked

\* what the claim lets a Sync pass do to node n of spec entity e, given whether the
\* spec and the base font are flagged changed: text and font stay when neither is
\* flagged, the text stays when it already equals rt
GatedTextFont(n, e, spec_flagged, font_flagged) ==
    /\ (~spec_flagged /\ ~font_flagged) => (text'[n] = text[n] /\ textFont'[n] = textFont[n])
    /\ text[n] = ruby[e].rt => text'[n] = text[n]

\* C25: a Sync pass with neither the spec nor the base font flagged changed leaves
\* the node's text and font alone, leaves the text alone when it already equals rt,
\* and writes the colour (the Ruby's, else the base run's) in every pass
C25_GatedSync ==
    [][/\ (pc = "update" /\ pc' = "layout") =>
              \A n \in alive : SyncPairUi(n) =>
                  /\ GatedTextFont(n, rubyText[n], rubyText[n] \in rubyChanged.ui,
                                   rubyText[n] \in fontChanged.ui)
                  /\ textColor'[n] = MirroredColor(rubyText[n])
       /\ (pc = "sync2d" /\ pc' = "end") =>
              \A n \in alive : SyncPair2d(n) =>
                  /\ GatedTextFont(n, rubyText2d[n], rubyText2d[n] \in rubyChanged.world,
                                   rubyText2d[n] \in fontChanged.world)
                  /\ textColor'[n] = MirroredColor(rubyText2d[n])]_vars

\* ------------------------------------------------------------------ a node that cannot be placed
\* the user removes the layout components (Node and what it requires, or Transform)
\* from an annotation node: node_query.get_mut(rt_id) and ruby_transforms.get_mut(rt_id)
\* no longer find it, its RubyText / RubyText2d, text and font stay
StripNode(n) ==
    /\ pc = "update"
    /\ n \in alive
    /\ kind[n] \in {"rt", "rt2d"}
    /\ kind' = [kind EXCEPT ![n] = "bare"]
    /\ UNCHANGED <<alive, childOf, ruby, rubyText, linkedRubyText, rubyText2d,
                   linkedRubyText2d, nextId, contentVars, changeVars, uiOutVars, layoutVars,
                   world2dVars, ctlVars>>

InitSkip ==
    /\ probe = NoProbe
    /\ \E S \in {{Scene.root, Scene.block, Scene.span}, {Scene.block2d, Scene.span2d}} :
          InitWorld(S, 1, 0, UiTransformDefault)

NextSkip ==
    \/ \E e \in UserEntities : kind[e] # "node" /\ AddRuby(e, RubyNew("a"))
    \/ \E n \in NodeIds : StripNode(n)
    \/ PostUpdate({PlainGeom}, {Rect(10, 0, 50, 20)})

SpecSkip == InitSkip /\ [][NextSkip]_vars

\* a bound flow pair with everything Placement reads of the run and the block
ReadyUi(e) ==
    /\ PairUi(e)
    /\ (kind[e] = "span" => HasChildOf(e))
    /\ HasText(NodeEntity(e))
    /\ sectionRect[e].present
    /\ IsUiNode(NodeEntity(e))

\* a bound world pair with everything Placement reads of the run and the block
Ready2d(e) ==
    /\ Pair2d(e)
    /\ (kind[e] = "span" => HasChildOf(e))
    /\ HasLayoutInfo(NodeEntity(e))
    /\ sectionRect[e].present
    /\ HasText2d(NodeEntity(e))

\* C26: a Placement or Sync pass creates and destroys no entity and no binding, and
\* a pair whose annotation node lacks what Placement needs is skipped on its own:
\* its node is left alone and every other ready pair gets its placement in the pass
C26_PassesOnlySkip ==
    [][/\ (pc' # pc /\ pc \in {"update", "place", "place2d", "sync2d"}) =>
              /\ alive' = alive /\ kind' = kind /\ nextId' = nextId
              /\ rubyText' = rubyText /\ linkedRubyText' = linkedRubyText
              /\ rubyText2d' = rubyText2d /\ linkedRubyText2d' = linkedRubyText2d
       /\ (pc = "place" /\ pc' = "place2d") =>
              \A e \in alive : ReadyUi(e) =>
                  LET n == linkedRubyText[e] IN
                  IF kind[n] = "bare"
                  THEN node'[n] = node[n] /\ uiTransform'[n] = uiTransform[n]
                       /\ uiGlobalTransform'[n] = uiGlobalTransform[n]
                  ELSE node'[n] = [top |-> Px(RubyTopLeft(e)[2]), left |-> Px(RubyTopLeft(e)[1])]
       /\ (pc = "place2d" /\ pc' = "shape2d") =>
              \A e \in alive : Ready2d(e) =>
                  LET n == linkedRubyText2d[e] IN
                  IF kind[n] = "bare"
                  THEN transform'[n] = transform[n]
                  ELSE transform'[n] = RubyTransform2d(e)]_vars

\* a flow pass has just run over two ready pairs: the node of one lacks its layout
\* components and was left alone, the node of the other was placed
C26_Witness ==
    /\ pc = "place2d"
    /\ \E e1, e2 \in alive :
          /\ e1 # e2 /\ ReadyUi(e1) /\ ReadyUi(e2)
          /\ kind[linkedRubyText[e1]] = "bare"
          /\ node[linkedRubyText[e1]] = [top |-> Auto, left |-> Auto]
          /\ PlacedUi(e2)
          /\ node[linkedRubyText[e2]]
                = [top |-> Px(RubyTopLeft(e2)[2]), left |-> Px(RubyTopLeft(e2)[1])]
          /\ <<linkedRubyText[e2], "Node">> \in marked

\* ------------------------------------------------------------------ the change flags
\* the text and the font a Sync pass leaves on node n of spec entity e when
\* ruby.is_changed() is ruby_changed and text_font.is_changed() is font_changed
sync_outcome(n, e, ruby_changed, font_changed) ==
    [text |-> IF ruby_changed /\ text[n] # ruby[e].rt THEN ruby[e].rt ELSE text[n],
     font |-> IF font_changed THEN ruby_text_font(textFont[e], ruby[e].font_size_scale)
              ELSE textFont[n]]

\* sync over frames with the user also writing the base font: writing a font and then
\* the old one again leaves every value as it was and the font flagged changed
NextFlags ==
    \/ \E e \in Leaves : AddRuby(e, RubyNew("a"))
    \/ \E e \in Leaves, rt \in Rts : SetRuby(e, [ruby[e] EXCEPT !.rt = rt])
    \/ \E e \in Leaves, s \in {1, 2} : SetRuby(e, [ruby[e] EXCEPT !.font_size_scale = s])
    \/ \E e \in Leaves, f \in FontChoices : SetFont(e, f)
    \/ PostUpdate({PlainGeom}, {Rect(10, 0, 50, 20)})

SpecFlags == InitSync /\ [][NextFlags]_vars

\* C27: the text and the font a Sync pass leaves on a node are a function of the
\* component values alone: whatever the change flags are, the pass ends with the
\* text and the font it would end with under any other setting of the flags
C27_FlagsAdvisory ==
    [][/\ (pc = "update" /\ pc' = "layout") =>
              \A n \in alive : SyncPairUi(n) =>
                  \A rc, fc \in BOOLEAN :
                      [text |-> text'[n], font |-> textFont'[n]]
                          = sync_outcome(n, rubyText[n], rc, fc)
       /\ (pc = "sync2d" /\ pc' = "end") =>
              \A n \in alive : SyncPair2d(n) =>
                  \A rc, fc \in BOOLEAN :
                      [text |-> text'[n], font |-> textFont'[n]]
                          = sync_outcome(n, rubyText2d[n], rc, fc)]_vars

\* ------------------------------------------------------------------ skipped pairs
\* frames in which the shaping pass may or may not report the run.  The app runs its
\* schedule frame after frame and every pass of PostUpdate returns (none of them
\* waits for anything), so every frame reaches its end and another one begins
NextHeal ==
    \/ \E e \in Leaves : AddRuby(e, RubyNew("a"))
    \/ PostUpdate({PlainGeom}, {Rect(10, 0, 50, 20), NoRect})

SpecHeal ==
    /\ InitSync
    /\ [][NextHeal]_vars
    /\ []<>(pc = "end")
    /\ []<>(pc = "update")

\* the node of the pair of e has been given a placement at some time
HasBeenPlaced(e) ==
    \/ PairUi(e) /\ ~node[linkedRubyText[e]].left.auto
    \/ Pair2d(e) /\ NodeXY(linkedRubyText2d[e]) # <<0, 0>>

\* the inputs of the pair of e are available: the frame's flow layout has run and
\* left the run's rectangle, or the last 2D shaping pass has
Available(e) ==
    \/ ReadyUi(e) /\ IsUiNode(linkedRubyText[e]) /\ pc \notin {"update", "layout"}
    \/ Ready2d(e) /\ HasText2d(linkedRubyText2d[e])

\* C28: a pair that Placement skipped is placed by the first pass that finds its run
\* rectangle, layout info and block transform, from the values the pass reads then;
\* a pair whose inputs become available is eventually placed
C28_SelfHeals ==
    /\ [][/\ (pc = "place" /\ pc' = "place2d") =>
                \A e \in alive : (ReadyUi(e) /\ IsUiNode(linkedRubyText[e])) =>
                    node'[linkedRubyText[e]]
                        = [top |-> Px(RubyTopLeft(e)[2]), left |-> Px(RubyTopLeft(e)[1])]
          /\ (pc = "place2d" /\ pc' = "shape2d") =>
                \A e \in alive : (Ready2d(e) /\ HasText2d(linkedRubyText2d[e])) =>
                    transform'[linkedRubyText2d[e]] = RubyTransform2d(e)]_vars
    /\ \A e \in SceneIds : Available(e) ~> HasBeenPlaced(e)

\* a pair that went through a frame unplaced has just been placed, in a later frame,
\* from the rectangle found there
C28_Witness ==
    \E e \in alive :
        /\ rubyAge[e] >= 1
        /\ \/ /\ pc = "place2d"
              /\ PlacedUi(e)
              /\ <<linkedRubyText[e], "Node">> \in marked
              /\ node[linkedRubyText[e]]
                    = [top |-> Px(RubyTopLeft(e)[2]), left |-> Px(RubyTopLeft(e)[1])]
           \/ /\ pc = "shape2d"
              /\ Placed2d(e)
              /\ <<linkedRubyText2d[e], "Transform">> \in marked
              /\ NodeXY(linkedRubyText2d[e]) = WorldXY(e, sectionRect[e])

====
